---- MODULE Spec2Model ----
(***************************************************************************)
(* Model of the Reddit fetcher (src/fetch.py) and flattener (src/merge.py). *)
(* Spec: one collection scope, its tracker files and item files on disk,   *)
(* and the runs of fetch_posts against it: discovery, the extract/persist  *)
(* loop and save_post, whose writes are separate steps so that an          *)
(* interruption or a write fault can fall between any two of them.         *)
(* SpecDiscovery: collect_post_links alone, on any listing.                *)
(* SpecExtract: the steps of extract_post_data on any item page, with the  *)
(* windows of the browser. SpecComments: extract_comments on any comment   *)
(* tree. SpecMerge: merge runs over a changing data directory.             *)
(* SpecEndless: collect_post_links on a page that never settles, under     *)
(* weak fairness. SpecDescent: _extract_single_comment call by call over   *)
(* structures that need not be well-founded. SpecFlatten: one merge run    *)
(* over any data directory. SpecDefaulting: _process_json_file on any item.*)
(***************************************************************************)
EXTENDS Integers, Sequences, FiniteSets, TLC

\* ------------------------------------------------------------------ bounds
\* distinct post links the listing can show
MaxLinks == 3
\* containers in the listing
MaxListing == 3
\* largest --count
MaxCount == 2
\* runs of fetch_posts against the scope
MaxRuns == 2
\* disturbed container reads and unfaithful scrolls a page produces
MaxNoise == 1
\* comments in the comment tree of an item page
MaxNodes == 5
\* item files a folder of the data directory can hold
MaxFiles == 2
\* comments of a structure that need not be well-founded
MaxComments == 2
\* calls of _extract_single_comment the interpreter lets nest before it
\* raises RecursionError (sys.getrecursionlimit, scaled down)
RecursionLimit == 3

\* ------------------------------------------------------- program constants
max_scroll_attempts == 50

Links == 1..MaxLinks

\* id_tracker.json absent
NoFile == 0

\* _generate_hash: md5 of the url, a deterministic tag distinct from the url
Hash(url) == <<"md5", url>>

\* an item file cut short by a failing write: not a valid record
TornFile == [url |-> 0, hash |-> <<"md5", 0>>, id |-> 0]

Range(s) == {s[k] : k \in 1..Len(s)}

Take(s, n) == SubSeq(s, 1, IF n < Len(s) THEN n ELSE Len(s))

Min(a, b) == IF a < b THEN a ELSE b

Max(S) == IF S = {} THEN 0 ELSE CHOOSE x \in S : \A y \in S : y <= x

\* the listings, up to renaming of the links: a link not shown higher up is
\* the least link not yet used
Listings ==
  {s \in UNION {[1..n -> Links] : n \in 0..MaxListing} :
     \A k \in 1..Len(s) : s[k] <= 1 + Max({s[j] : j \in 1..(k - 1)})}

\* what reading one container can do (lines 198-215, 229)
Outcomes == {"ok", "stale", "nohref", "error"}

VARIABLES
  \* disk, per scope
  files,             \* id -> content of <id>.json
  id_tracker,        \* next_id held by id_tracker.json, NoFile when absent
  hash_tracker,      \* hashes held by hash_tracker.json
  \* the listing page
  listing,           \* links of the containers, top to bottom
  page,              \* containers materialized per scroll
  \* the run
  pc, run, count,
  driver,            \* self.driver: "none", "open" once started, "quit"
  next_id, collected_hashes,
  visible, collected_links, seen_links, scroll_attempts,
  post_links, i, post_data, post_id, successful, failed,
  \* history
  noise,             \* disturbed reads and scrolls the page may still produce
  scrolls,           \* scroll-to-bottom actions performed by this discovery
  clean,             \* no read or scroll of this discovery was disturbed
  dropped,           \* some container read of this discovery was dropped
  has_more_content,  \* what the last scroll_and_wait returned, TRUE before any
  hashes0,           \* fingerprint set loaded at scope setup of this run
  attempted,         \* links handed to extract_post_data by this run, in order
  fault,             \* what ended the run early
  reported,          \* the succeeded and failed counts were printed
  ended,             \* how the last process ended: its exit code and fault
  \* the browser and the item page, followed inside extract_post_data
  windows,           \* driver.window_handles, in order of opening
  current,           \* the window the driver is switched to
  item,              \* what the item page holds
  votes_preview,     \* the score handed over by discovery, or null
  ret,               \* what extract_post_data returned
  tree,              \* the comment tree of the item page
  \* the flattener (src/merge.py)
  data_dir,          \* the folders of a community under the data directory
  output_file,       \* the CSV file
  merged,            \* how the last merge run went, "no" once the data changed
  data,              \* the JSON object loaded from an item file (line 69)
  record,            \* the record _process_json_file made of it
  source,            \* element -> its shreddit-comment children, 0 the comment tree
  stack,             \* the calls of _extract_single_comment under way
  overflow,          \* the interpreter has run out of stack (RecursionError)
  assigned,          \* ids returned by save_post, in order, over all runs
  cut,               \* some save_post wrote id_tracker.json and never returned
  writes,            \* id -> number of complete writes of <id>.json
  prev               \* the last discovery against a cleanly read page holding
                     \* no more links than its target count

disk == <<files, id_tracker, hash_tracker>>
descent == <<source, stack, overflow>>
flat == <<data_dir, output_file, merged, data, record, descent>>
aside == <<windows, current, item, votes_preview, ret, tree, flat>>
trackers == <<id_tracker, hash_tracker>>
page_env == <<listing, page, noise>>
disc == <<visible, collected_links, seen_links, scroll_attempts, scrolls, clean, dropped,
          has_more_content>>
loop == <<post_links, i, post_data, post_id, successful, failed, attempted>>
mem == <<next_id, collected_hashes, hashes0>>
hist == <<assigned, cut, writes, prev>>
vars == <<files, id_tracker, hash_tracker, listing, page, noise, pc, run, count,
          next_id, collected_hashes, visible, collected_links, seen_links,
          scroll_attempts, post_links, i, post_data, post_id, successful, failed,
          scrolls, clean, dropped, hashes0, attempted, fault, assigned, cut, writes, prev,
          driver, reported, ended, windows, current, item, votes_preview, ret, tree,
          data_dir, output_file, merged, data, record, source, stack, overflow,
          has_more_content>>

NoData == [url |-> 0, hash |-> <<"md5", 0>>, id |-> 0]

\* ---------------------------------------------------------- the item page
\* Python's None
Null == "null"

\* an element the page does not hold (find_element raises
\* NoSuchElementException)
Absent == "absent"

\* str.strip on the texts the pages hold
Strip(text) == IF text = " " THEN "" ELSE IF text = " a " THEN "a" ELSE text

NoElement == [found |-> FALSE, text |-> "", number |-> Null]

\* a faceplate-number element: its text and its number attribute
Faceplates(t, n) ==
  {NoElement} \cup [found : {TRUE}, text : {"", " ", t}, number : {Null, "", n}]

\* the shreddit-post element of the item page: the faceplate-number in it
\* and its score attribute
Posts ==
  {[found |-> FALSE, face |-> NoElement, score |-> Null]}
    \cup [found : {TRUE}, face : Faceplates("t2", "n2"), score : {Null, "s3"}]

\* the item pages: title, body (its paragraphs joined), the faceplate-number
\* of the post info row, the shreddit-post element
Items ==
  [title : {Absent, "T"}, body : {Absent, "", "B"},
   seeker : Faceplates("t1", "n1"), post : Posts]

NoItem == [title |-> Absent, body |-> Absent, seeker |-> NoElement,
           post |-> [found |-> FALSE, face |-> NoElement, score |-> Null]]

\* what reading one comment can do: it is read, its own extraction throws
\* (lines 377-397, 413), or listing its replies throws (lines 403, 408)
NodeReads == {"ok", "throws", "noreplies"}

\* the comments of a page in document order, each with its nesting depth:
\* a comment is a reply to the nearest comment above it that is one level up
Shapes(n) ==
  {d \in [1..n -> 1..n] :
     /\ n > 0 => d[1] = 1
     /\ \A k \in 1..(n - 1) : d[k + 1] <= d[k] + 1}

\* a page without a shreddit-comment-tree element
NoTree == [present |-> "missing", depth |-> <<>>, read |-> <<>>]

\* a page whose shreddit-comment-tree element cannot be read
BadTree == [present |-> "error", depth |-> <<>>, read |-> <<>>]

\* the comment trees of n comments, with any outcome of reading each
Trees(n) ==
  {[present |-> "ok", depth |-> d, read |-> r] :
     d \in Shapes(n), r \in [1..n -> NodeReads]}

\* --------------------------------------------------- the data directory
\* what an item file holds: a JSON object, or something json.load rejects
Kinds == {"item", "malformed"}

\* the folders: item files by id, each of a kind
Dirs == UNION {[S -> Kinds] : S \in SUBSET (1..MaxFiles)}

\* hash_tracker.json and id_tracker.json (lines 105-106 of fetch.py): in a
\* sorted folder listing they come after the item files, in this order
HashTracker == MaxFiles + 1
IdTracker == MaxFiles + 2
TrackerFiles == {HashTracker, IdTracker}

\* folder dir once the fetcher has saved its trackers there
WithTrackers(dir) ==
  [f \in DOMAIN dir \cup TrackerFiles |-> IF f \in TrackerFiles THEN "tracker" ELSE dir[f]]

\* the folders a scope of the fetcher can be: item files, with the two
\* tracker files or without
TrackedDirs == Dirs \cup {WithTrackers(dir) : dir \in Dirs}

\* no output file
NoOutput == [exists |-> FALSE, rows |-> <<>>]

\* the values json.load gives for a key of an item file: text is str(value),
\* json is json.dumps(value), size is len(value) where it has one
JsonNull == [type |-> "null", text |-> "None", json |-> "null", size |-> 0]
JsonStrings ==
  {[type |-> "str", text |-> t, json |-> "\"" \o t \o "\"", size |-> Len(t)] :
     t \in {"", " ", "a", " a "}}
JsonLists ==
  {[type |-> "list", text |-> "[]", json |-> "[]", size |-> 0],
   [type |-> "list", text |-> "['a']", json |-> "[\"a\"]", size |-> 1]}
JsonDicts ==
  {[type |-> "dict", text |-> "{}", json |-> "{}", size |-> 0],
   [type |-> "dict", text |-> "{'a': 1}", json |-> "{\"a\": 1}", size |-> 1]}
JsonNumbers ==
  {[type |-> "int", text |-> "0", json |-> "0", size |-> 0],
   [type |-> "int", text |-> "5", json |-> "5", size |-> 0]}
JsonValues == {JsonNull} \cup JsonStrings \cup JsonLists \cup JsonDicts \cup JsonNumbers

\* a key the item file does not hold
Missing == [type |-> "missing", text |-> "", json |-> "", size |-> 0]

\* no item file loaded, no record made
NoJson == [description |-> Missing, votes |-> Missing, comments |-> Missing]
NoRecord == [made |-> FALSE, description |-> "", votes |-> "", comments |-> ""]
Unprocessed == data = NoJson /\ record = NoRecord

\* no comment structure, no call of _extract_single_comment
NoSource == [e \in {0} |-> <<>>]
NoDescent == source = NoSource /\ stack = <<>> /\ overflow = FALSE

\* a community folder without files or subfolders, no output file, no merge
\* run yet
Unmerged ==
  /\ data_dir = [direct |-> <<>>, has_sub |-> FALSE, sub |-> <<>>, other |-> <<>>]
  /\ output_file = NoOutput
  /\ merged = "no"
  /\ Unprocessed

\* no browser, no page
NoPage ==
  /\ windows = <<>>
  /\ current = "none"
  /\ item = NoItem
  /\ votes_preview = Null
  /\ ret = "pending"
  /\ tree = NoTree
NoPrev == [valid |-> FALSE, found |-> {}, listing |-> <<>>]

\* no process has ended since the last one started
NoEnd == [code |-> "none", fault |-> "none"]

\* what is in memory before a run has loaded anything, its target count c
Fresh(c) ==
  /\ count = c
  /\ next_id = 0
  /\ collected_hashes = {}
  /\ visible = 0
  /\ collected_links = <<>>
  /\ seen_links = {}
  /\ scroll_attempts = 0
  /\ post_links = <<>>
  /\ i = 0
  /\ post_data = NoData
  /\ post_id = 0
  /\ successful = 0
  /\ failed = 0
  /\ scrolls = 0
  /\ clean = TRUE
  /\ dropped = FALSE
  /\ has_more_content = TRUE
  /\ hashes0 = {}
  /\ attempted = <<>>
  /\ fault = "none"
  /\ reported = FALSE

\* the process ends: what was in memory is gone
Forget ==
  /\ count' = 0
  /\ next_id' = 0
  /\ collected_hashes' = {}
  /\ visible' = 0
  /\ collected_links' = <<>>
  /\ seen_links' = {}
  /\ scroll_attempts' = 0
  /\ post_links' = <<>>
  /\ i' = 0
  /\ post_data' = NoData
  /\ post_id' = 0
  /\ successful' = 0
  /\ failed' = 0
  /\ scrolls' = 0
  /\ clean' = TRUE
  /\ dropped' = FALSE
  /\ has_more_content' = TRUE
  /\ hashes0' = {}
  /\ attempted' = <<>>
  /\ fault' = "none"
  /\ reported' = FALSE

\* a listing of distinct posts, as many as the largest target count
PlainListing == [k \in 1..Min(MaxCount, Min(MaxLinks, MaxListing)) |-> k]

\* an empty scope before its first run, its page showing one more container
\* per scroll and disturbing at most one read or scroll
Init ==
  /\ files = <<>>
  /\ id_tracker = NoFile
  /\ hash_tracker = {}
  /\ listing = PlainListing
  /\ page = 1
  /\ noise \in {0, 1}
  /\ pc = "idle"
  /\ run = 0
  /\ Fresh(0)
  /\ NoPage
  /\ Unmerged
  /\ NoDescent
  /\ driver = "none"
  /\ ended = NoEnd
  /\ assigned = <<>>
  /\ cut = FALSE
  /\ writes = <<>>
  /\ prev = NoPrev

\* ------------------------------------------------------------ the listing
\* between two runs the page may have gained a new post on top
ListingNow(old) ==
  {old} \cup {<<l>> \o old : l \in {x \in Links : Len(old) < MaxListing}}

\* ------------------------------------------------------- main, fetch_posts
\* the values --count can take
Counts == (0 - 1)..MaxCount

\* the test of line 551, negated
ValidCount(c) == c > 0

\* main with a count it refuses (lines 550-553): nothing is executed
UsageError ==
  /\ pc \in {"idle", "done"}
  /\ run < MaxRuns
  /\ run' = run + 1
  /\ \E c \in Counts :
       /\ ~ValidCount(c)
       /\ ended' = [code |-> 1, fault |-> "usage"]
  /\ driver' = "none"
  /\ pc' = "done"
  /\ UNCHANGED <<aside, reported, disk, page_env, count, mem, disc, loop, fault, hist>>

\* main validates --count, builds the fetcher and calls fetch_posts
\* (lines 550-557, 27-37, 457-466)
StartRun ==
  /\ pc \in {"idle", "done"}
  /\ run < MaxRuns
  /\ run' = run + 1
  /\ \E c \in Counts : ValidCount(c) /\ count' = c
  /\ listing' \in ListingNow(listing)
  /\ driver' = "none"
  /\ ended' = NoEnd
  /\ pc' = "setup"
  /\ UNCHANGED <<aside, reported, disk, page, noise, mem, disc, loop, fault, hist>>

\* setup_driver (lines 140-154, 468): the browser starts
SetupDriver ==
  /\ pc = "setup"
  /\ driver' = "open"
  /\ pc' = "init_dir"
  /\ UNCHANGED <<aside, reported, ended, disk, page_env, run, count, mem, disc, loop, fault, hist>>

\* setup_driver raises, before the browser exists (lines 151-152) or once it
\* does (line 153): caught at line 506
SetupDriverFails ==
  /\ pc = "setup"
  /\ driver' \in {"none", "open"}
  /\ pc' = "finally"
  /\ fault' = "setup"
  /\ UNCHANGED <<aside, reported, ended, disk, page_env, run, count, mem, disc, loop, hist>>

\* _load_next_id (lines 110-116)
LoadNextId == IF id_tracker = NoFile THEN 1 ELSE id_tracker

\* the tracker file ignored
LoadCollectedHashes_Empty == {}

\* _load_collected_hashes (lines 123-129)
LoadCollectedHashes == hash_tracker

\* the containers materialized when the page has loaded (lines 175-176)
InitialVisible == Min(page, Len(listing))

\* collect_post_links up to its loop (lines 169-190): _setup_community_dir
\* loads the trackers, the page is opened, the operator passes the gate
SetupCommunityDir ==
  /\ pc = "init_dir"
  /\ next_id' = LoadNextId
  /\ collected_hashes' = LoadCollectedHashes
  /\ hashes0' = LoadCollectedHashes
  /\ visible' = InitialVisible
  /\ collected_links' = <<>>
  /\ seen_links' = {}
  /\ scroll_attempts' = 0
  /\ pc' = "scan"
  /\ UNCHANGED <<aside, driver, reported, ended, disk, page_env, run, count, scrolls, clean, dropped, has_more_content, loop, fault, hist>>

\* ------------------------------------------------------ collect_post_links
\* the fingerprint test left out
IsNew_NoFingerprint(link, seen, hashes) == link \notin seen

\* the test of lines 203-206: a link not seen in this run and not fingerprinted
IsNew(link, seen, hashes) == link \notin seen /\ Hash(link) \notin hashes

\* the for loop over the containers (lines 197-215); r[j] is what reading
\* container j does. An unexpected exception leaves the loop (line 229).
RECURSIVE ScanFrom(_, _, _, _, _, _, _)
ScanFrom(cs, r, j, acc, seen, hashes, n) ==
  IF j > Len(cs) THEN [links |-> acc, seen |-> seen, err |-> FALSE]
  ELSE IF r[j] = "error" THEN [links |-> acc, seen |-> seen, err |-> TRUE]
  ELSE IF r[j] \in {"stale", "nohref"} THEN ScanFrom(cs, r, j + 1, acc, seen, hashes, n)
  ELSE IF IsNew(cs[j], seen, hashes)
    THEN IF Len(acc) + 1 >= n
           THEN [links |-> Append(acc, cs[j]), seen |-> seen \cup {cs[j]}, err |-> FALSE]
           ELSE ScanFrom(cs, r, j + 1, Append(acc, cs[j]), seen \cup {cs[j]}, hashes, n)
    ELSE ScanFrom(cs, r, j + 1, acc, seen, hashes, n)

\* the loop test of line 192 with the cap tested one cycle late
LoopTest_LateCap(links, attempts) == Len(links) < count /\ attempts <= max_scroll_attempts

\* the loop test of line 192
LoopTest(links, attempts) == Len(links) < count /\ attempts < max_scroll_attempts

\* a page whose disturbances never run out
Endless == max_scroll_attempts + 1

\* the disturbances left after k of them
Spend(n, k) == IF n = Endless THEN n ELSE n - k

\* what the reads of v containers can do on a page with k disturbances left
Reads(v, k) ==
  {r \in [1..v -> Outcomes] : Cardinality({j \in 1..v : r[j] # "ok"}) <= k}

\* one pass of lines 193-215, and lines 229-231 when it raises
Scan ==
  /\ pc = "scan"
  /\ \E r \in Reads(visible, noise) :
       LET bad == Cardinality({j \in 1..visible : r[j] # "ok"})
           res == ScanFrom(SubSeq(listing, 1, visible), r, 1,
                           collected_links, seen_links, collected_hashes, count)
       IN /\ noise' = Spend(noise, bad)
          /\ clean' = (clean /\ bad = 0)
          /\ dropped' = (dropped \/ \E j \in 1..visible : r[j] \in {"stale", "nohref"})
          /\ collected_links' = res.links
          /\ seen_links' = res.seen
          /\ IF res.err
               THEN /\ scroll_attempts' = scroll_attempts + 1
                    /\ pc' = IF LoopTest(res.links, scroll_attempts + 1)
                               THEN "scan" ELSE "discovered"
               ELSE /\ scroll_attempts' = scroll_attempts
                    /\ pc' = "scanned"
  /\ UNCHANGED <<aside, driver, reported, ended, disk, listing, page, run, count, mem, visible, scrolls, has_more_content, loop, fault, hist>>

\* the test of line 218 left out: the cycle scrolls before the loop ends
EnoughLinks_Scrolls ==
  /\ pc = "scanned"
  /\ Len(collected_links) >= count
  /\ scrolls' = scrolls + 1
  /\ scroll_attempts' = scroll_attempts + 1
  /\ visible' = Min(visible + page, Len(listing))
  /\ pc' = "discovered"
  /\ UNCHANGED <<aside, driver, reported, ended, disk, page_env, run, count, mem, collected_links, seen_links, clean,
                 dropped, has_more_content, loop, fault, hist>>

\* lines 217-219: enough links, stop without scrolling
EnoughLinks ==
  /\ pc = "scanned"
  /\ Len(collected_links) >= count
  /\ pc' = "discovered"
  /\ UNCHANGED <<aside, driver, reported, ended, disk, page_env, run, count, mem, disc, loop, fault, hist>>

\* scroll_and_wait (lines 156-162) and lines 221-227. A faithful page grows
\* by one page of containers and reports so, or reports no growth when
\* nothing is left; a disturbed one reports growth without new containers
\* ("height_only") or no growth although containers remain ("stalled").
ScrollStep ==
  /\ pc = "scanned"
  /\ Len(collected_links) < count
  /\ \E how \in {"faithful", "height_only", "stalled"} :
       LET more == visible < Len(listing)
           grew == (how = "height_only") \/ (how = "faithful" /\ more)
       IN /\ how = "stalled" => more
          /\ how # "faithful" => noise > 0
          /\ noise' = Spend(noise, IF how = "faithful" THEN 0 ELSE 1)
          /\ has_more_content' = grew
          /\ clean' = (clean /\ how = "faithful")
          /\ visible' = IF how = "faithful" THEN Min(visible + page, Len(listing)) ELSE visible
          /\ scrolls' = scrolls + 1
          /\ scroll_attempts' = scroll_attempts + 1
          /\ pc' = IF grew /\ LoopTest(collected_links, scroll_attempts + 1)
                     THEN "scan" ELSE "discovered"
  /\ UNCHANGED <<aside, driver, reported, ended, disk, listing, page, run, count, mem, collected_links, seen_links,
                 dropped, loop, fault, hist>>

\* lines 233-234 and 471-479: the links come back; none ends the run
DiscoveryReturn ==
  /\ pc = "discovered"
  /\ post_links' = Take(collected_links, count)
  /\ prev' = IF clean /\ Cardinality(Range(listing)) <= count
               THEN [valid |-> TRUE, found |-> Range(collected_links), listing |-> listing]
               ELSE NoPrev
  /\ IF collected_links = <<>>
       THEN pc' = "finally" /\ i' = 0
       ELSE pc' = "extract" /\ i' = 1
  /\ successful' = 0
  /\ failed' = 0
  /\ UNCHANGED <<aside, driver, reported, ended, disk, page_env, run, count, mem, disc, post_data, post_id, attempted,
                 fault, assigned, cut, writes>>

\* ------------------------------------------------- the extract/persist loop
\* after an item: the next link, or the summary (lines 481, 494-496)
NextItem == IF i + 1 > Len(post_links) THEN "summary" ELSE "extract"

\* extract_post_data returns a record (lines 245-335, 483-485)
ExtractOk ==
  /\ pc = "extract"
  /\ post_data' = [url |-> post_links[i], hash |-> Hash(post_links[i]), id |-> 0]
  /\ attempted' = Append(attempted, post_links[i])
  /\ pc' = "save_begin"
  /\ UNCHANGED <<aside, driver, reported, ended, disk, page_env, run, count, mem, disc, post_links, i, post_id,
                 successful, failed, fault, hist>>

\* a failed extraction that leaves the loop
ExtractFails_Abort ==
  /\ pc = "extract"
  /\ attempted' = Append(attempted, post_links[i])
  /\ failed' = failed + 1
  /\ pc' = "summary"
  /\ UNCHANGED <<aside, driver, reported, ended, disk, page_env, run, count, mem, disc, post_links, i, post_data, post_id,
                 successful, fault, hist>>

\* extract_post_data returns None (lines 337-346, 489-494)
ExtractFails ==
  /\ pc = "extract"
  /\ attempted' = Append(attempted, post_links[i])
  /\ failed' = failed + 1
  /\ i' = i + 1
  /\ pc' = NextItem
  /\ UNCHANGED <<aside, driver, reported, ended, disk, page_env, run, count, mem, disc, post_links, post_data, post_id,
                 successful, fault, hist>>

\* ---------------------------------------------------------------- save_post
\* lines 429-438: the id is the current counter
SaveBegin ==
  /\ pc = "save_begin"
  /\ post_id' = next_id
  /\ post_data' = [post_data EXCEPT !.id = next_id]
  /\ pc' = "save_write"
  /\ UNCHANGED <<aside, driver, reported, ended, disk, page_env, run, count, mem, disc, post_links, i, successful,
                 failed, attempted, fault, hist>>

\* the directory with <id>.json holding content
WithFile(fs, id, content) ==
  [k \in DOMAIN fs \cup {id} |-> IF k = id THEN content ELSE fs[k]]

\* the write counts with one more complete write of <id>.json
Counted(w, id) ==
  [k \in DOMAIN w \cup {id} |-> IF k = id THEN (IF k \in DOMAIN w THEN w[k] + 1 ELSE 1)
                                          ELSE w[k]]

\* the counter committed in place of the item file (commit before write)
SaveWriteItem_CommitFirst ==
  /\ pc = "save_write"
  /\ id_tracker' = next_id + 1
  /\ pc' = "save_mem"
  /\ UNCHANGED <<aside, driver, reported, ended, files, hash_tracker, page_env, run, count, mem, disc, loop, fault, hist>>

\* lines 440-442: the item file is written
SaveWriteItem ==
  /\ pc = "save_write"
  /\ files' = WithFile(files, post_id, post_data)
  /\ writes' = Counted(writes, post_id)
  /\ pc' = "save_mem"
  /\ UNCHANGED <<aside, driver, reported, ended, trackers, page_env, run, count, mem, disc, loop, fault, assigned, cut, prev>>

\* a failing write that comes after the trackers were advanced
SaveWriteItemFails_Advanced ==
  /\ pc = "save_write"
  /\ files' \in {files, WithFile(files, post_id, TornFile)}
  /\ collected_hashes' = collected_hashes \cup {post_data.hash}
  /\ next_id' = next_id + 1
  /\ id_tracker' = next_id + 1
  /\ fault' = "item_write"
  /\ pc' = "finally"
  /\ UNCHANGED <<aside, driver, reported, ended, hash_tracker, page_env, run, count, hashes0, disc, loop, hist>>

\* lines 440-442 raise (the file cannot be opened, or the dump is cut short
\* and leaves a torn file); the exception leaves save_post and the loop and
\* is caught at line 506
SaveWriteItemFails ==
  /\ pc = "save_write"
  /\ files' \in {files, WithFile(files, post_id, TornFile)}
  /\ fault' = "item_write"
  /\ pc' = "finally"
  /\ UNCHANGED <<aside, driver, reported, ended, trackers, page_env, run, count, mem, disc, loop, hist>>

\* the counter left where it was
SaveUpdateTrackers_NoAdvance ==
  /\ pc = "save_mem"
  /\ collected_hashes' = collected_hashes \cup {post_data.hash}
  /\ next_id' = next_id
  /\ pc' = "save_id"
  /\ UNCHANGED <<aside, driver, reported, ended, disk, page_env, run, count, hashes0, disc, loop, fault, hist>>

\* lines 445-446: the fingerprint and the counter advance in memory
SaveUpdateTrackers ==
  /\ pc = "save_mem"
  /\ collected_hashes' = collected_hashes \cup {post_data.hash}
  /\ next_id' = next_id + 1
  /\ pc' = "save_id"
  /\ UNCHANGED <<aside, driver, reported, ended, disk, page_env, run, count, hashes0, disc, loop, fault, hist>>

\* _save_next_id (lines 118-121, 447)
SaveNextId ==
  /\ pc = "save_id"
  /\ id_tracker' = next_id
  /\ pc' = "save_hashes"
  /\ UNCHANGED <<aside, driver, reported, ended, files, hash_tracker, page_env, run, count, mem, disc, loop, fault, hist>>

\* _save_next_id raises (the tracker cannot be opened): caught at line 506
SaveNextIdFails ==
  /\ pc = "save_id"
  /\ fault' = "id_write"
  /\ pc' = "finally"
  /\ UNCHANGED <<aside, driver, reported, ended, disk, page_env, run, count, mem, disc, loop, hist>>

\* _save_collected_hashes (lines 131-134, 448), then lines 450-451 and
\* 486-494: save_post returns the id and the loop moves on
SaveCollectedHashes ==
  /\ pc = "save_hashes"
  /\ hash_tracker' = collected_hashes
  /\ assigned' = Append(assigned, post_id)
  /\ successful' = successful + 1
  /\ i' = i + 1
  /\ pc' = NextItem
  /\ UNCHANGED <<aside, driver, reported, ended, files, id_tracker, page_env, run, count, mem, disc, post_links,
                 post_data, post_id, failed, attempted, fault, cut, writes, prev>>

\* _save_collected_hashes raises: caught at line 506
SaveCollectedHashesFails ==
  /\ pc = "save_hashes"
  /\ fault' = "hash_write"
  /\ cut' = TRUE
  /\ pc' = "finally"
  /\ UNCHANGED <<aside, driver, reported, ended, disk, page_env, run, count, mem, disc, loop, assigned, writes, prev>>

\* ------------------------------------------------------ the end of the run
\* lines 496-502: the summary
Summary ==
  /\ pc = "summary"
  /\ reported' = TRUE
  /\ pc' = "finally"
  /\ UNCHANGED <<aside, driver, ended, disk, page_env, run, count, mem, disc, loop, fault, hist>>

InTry == {"setup", "init_dir", "scan", "scanned", "discovered", "extract", "save_begin",
          "save_write", "save_mem", "save_id", "save_hashes", "summary"}

\* KeyboardInterrupt anywhere in the try block (line 504); one that falls in
\* setup_driver finds the browser started or not
Interrupt ==
  /\ pc \in InTry
  /\ fault' = "interrupt"
  /\ cut' = (cut \/ pc = "save_hashes")
  /\ driver' \in IF pc = "setup" THEN {"none", "open"} ELSE {driver}
  /\ pc' = "finally"
  /\ UNCHANGED <<aside, reported, ended, disk, page_env, run, count, mem, disc, loop, assigned, writes, prev>>

\* the finally clause without its quit
Finally_NoQuit ==
  /\ pc = "finally"
  /\ ended' = [code |-> 0, fault |-> fault]
  /\ pc' = "done"
  /\ Forget
  /\ UNCHANGED <<aside, driver, disk, page_env, run, hist>>

\* lines 510-514 and 557-559: the browser, when there is one, is closed,
\* fetch_posts returns and main returns 0; the process ends and what was in
\* memory is gone
Finally ==
  /\ pc = "finally"
  /\ driver' = IF driver = "open" THEN "quit" ELSE driver
  /\ ended' = [code |-> 0, fault |-> fault]
  /\ pc' = "done"
  /\ Forget
  /\ UNCHANGED <<aside, disk, page_env, run, hist>>

Next ==
  \/ UsageError
  \/ StartRun
  \/ SetupDriver
  \/ SetupDriverFails
  \/ SetupCommunityDir
  \/ Scan
  \/ EnoughLinks
  \/ ScrollStep
  \/ DiscoveryReturn
  \/ ExtractOk
  \/ ExtractFails
  \/ SaveBegin
  \/ SaveWriteItem
  \/ SaveWriteItemFails
  \/ SaveUpdateTrackers
  \/ SaveNextId
  \/ SaveNextIdFails
  \/ SaveCollectedHashes
  \/ SaveCollectedHashesFails
  \/ Summary
  \/ Interrupt
  \/ Finally

Spec == Init /\ [][Next]_vars

\* ------------------------------------------------------- discovery alone
\* the links of S in ascending order
RECURSIVE Ascending(_)
Ascending(S) ==
  IF S = {} THEN <<>>
  ELSE LET m == CHOOSE x \in S : \A y \in S : x <= y
       IN <<m>> \o Ascending(S \ {m})

\* the scope after earlier runs saved the links of S, one item file each
SavedScope(S) ==
  LET order == Ascending(S)
  IN /\ files = [k \in 1..Len(order) |->
                   [url |-> order[k], hash |-> Hash(order[k]), id |-> k]]
     /\ id_tracker = Len(order) + 1
     /\ hash_tracker = {Hash(l) : l \in S}
     /\ assigned = [k \in 1..Len(order) |-> k]
     /\ writes = [k \in 1..Len(order) |-> 1]

\* a run about to discover: any listing, any page size, any target count,
\* any set of links saved before
InitDiscovery ==
  /\ \E S \in SUBSET Links : SavedScope(S)
  /\ listing \in Listings
  /\ page \in 1..MaxListing
  /\ noise = MaxNoise
  /\ pc = "init_dir"
  /\ run = 1
  /\ \E c \in 1..MaxCount : Fresh(c)
  /\ NoPage
  /\ Unmerged
  /\ NoDescent
  /\ driver = "open"
  /\ ended = NoEnd
  /\ cut = FALSE
  /\ prev = NoPrev

NextDiscovery ==
  \/ SetupCommunityDir
  \/ Scan
  \/ EnoughLinks
  \/ ScrollStep
  \/ DiscoveryReturn

SpecDiscovery == InitDiscovery /\ [][NextDiscovery]_vars

\* collect_post_links on a page that may misbehave for ever: reads may fail
\* and the height may change without new containers at every cycle. Each
\* driver call returns, so a cycle that has begun runs to its end.
InitEndless ==
  /\ SavedScope({})
  /\ listing = PlainListing
  /\ page = 1
  /\ noise = Endless
  /\ pc = "init_dir"
  /\ run = 1
  /\ \E c \in 1..MaxCount : Fresh(c)
  /\ NoPage
  /\ Unmerged
  /\ NoDescent
  /\ driver = "open"
  /\ ended = NoEnd
  /\ cut = FALSE
  /\ prev = NoPrev

SpecEndless == InitEndless /\ [][NextDiscovery]_vars /\ WF_vars(NextDiscovery)

\* ------------------------------------------------------- extract_comments
\* the replies of comment k (the top-level comments for k = 0), in document
\* order: the XPath ./shreddit-comment of lines 357 and 403
Children(t, k) ==
  LET up == IF k = 0 THEN 0 ELSE t.depth[k]
  IN Ascending({j \in (k + 1)..Len(t.depth) :
                  /\ t.depth[j] = up + 1
                  /\ \A m \in (k + 1)..(j - 1) : t.depth[m] > up})

RECURSIVE ExtractSingleComment(_, _)
RECURSIVE ExtractEach(_, _)

\* the loop that leaves at the first comment that yields nothing
ExtractEach_Abort(t, cs) ==
  IF cs = <<>> THEN <<>>
  ELSE LET first == ExtractSingleComment(t, Head(cs))
       IN IF first = <<>> THEN <<>> ELSE first \o ExtractEach(t, Tail(cs))

\* the loop that collects the comments last to first
ExtractEach_Reversed(t, cs) ==
  IF cs = <<>> THEN <<>>
  ELSE ExtractEach(t, Tail(cs)) \o ExtractSingleComment(t, Head(cs))

\* the loops of lines 360-363 and 404-407: each comment in turn, appended
\* when its extraction yields a record
ExtractEach(t, cs) ==
  IF cs = <<>> THEN <<>>
  ELSE ExtractSingleComment(t, Head(cs)) \o ExtractEach(t, Tail(cs))

\* _extract_single_comment (lines 373-414): the record of comment k in a
\* one-element sequence, or the empty sequence for None
ExtractSingleComment(t, k) ==
  IF t.read[k] = "throws" THEN <<>>
  ELSE <<[text |-> k,
          replies |-> IF t.read[k] = "noreplies" THEN <<>>
                      ELSE ExtractEach(t, Children(t, k))]>>

\* extract_comments (lines 348-371)
extract_comments(t) ==
  IF t.present # "ok" THEN <<>> ELSE ExtractEach(t, Children(t, 0))

\* ------------------------------------------------------- extract_post_data
\* lines 287-289 and 298-300: the text, or the number attribute when the
\* text is empty
ReadFaceplate(e) == IF Strip(e.text) # "" THEN Strip(e.text) ELSE e.number

\* the strategies of lines 283-313
VoteCount(it) ==
  IF it.seeker.found THEN ReadFaceplate(it.seeker)
  ELSE IF it.post.found /\ it.post.face.found THEN ReadFaceplate(it.post.face)
  ELSE IF it.post.found THEN it.post.score
  ELSE Null

\* the dict post_data with one more key
WithKey(d, key, value) ==
  [k \in DOMAIN d \cup {key} |-> IF k = key THEN value ELSE d[k]]

\* the handles left when window h is closed
Closed(ws, h) == SelectSeq(ws, LAMBDA w : w # h)

\* what the steps of extract_post_data leave alone
call == <<disk, page_env, run, count, mem, disc, post_links, i, post_id, successful,
          failed, attempted, reported, driver, ended, hist, item, votes_preview, tree,
          flat>>

\* line 247: window.open
OpenTab ==
  /\ pc = "x_open"
  /\ windows' = Append(windows, "aux")
  /\ pc' = "x_switch"
  /\ UNCHANGED <<call, current, post_data, ret, fault>>

\* line 248: switch to the last handle
SwitchTab ==
  /\ pc = "x_switch"
  /\ current' = windows[Len(windows)]
  /\ pc' = "x_get"
  /\ UNCHANGED <<call, windows, post_data, ret, fault>>

\* lines 249-256: the page is loaded, post_data is started
LoadPage ==
  /\ pc = "x_get"
  /\ post_data' = [url |-> post_links[i], hash |-> Hash(post_links[i]), scraped_at |-> "now"]
  /\ pc' = "x_title"
  /\ UNCHANGED <<call, windows, current, ret, fault>>

\* lines 258-265
ReadTitle ==
  /\ pc = "x_title"
  /\ post_data' = WithKey(post_data, "title",
                          IF item.title = Absent THEN Null ELSE Strip(item.title))
  /\ pc' = "x_body"
  /\ UNCHANGED <<call, windows, current, ret, fault>>

\* a missing body that fails the extraction
ReadBody_Strict ==
  /\ pc = "x_body"
  /\ IF item.body = Absent
       THEN pc' = "x_except" /\ post_data' = post_data
       ELSE pc' = "x_votes" /\ post_data' = WithKey(post_data, "description", item.body)
  /\ UNCHANGED <<call, windows, current, ret, fault>>

\* lines 267-276
ReadBody ==
  /\ pc = "x_body"
  /\ post_data' = WithKey(post_data, "description",
                          IF item.body = Absent THEN Null ELSE item.body)
  /\ pc' = "x_votes"
  /\ UNCHANGED <<call, windows, current, ret, fault>>

\* lines 278-313: the strategies run to their end
ReadVotes ==
  /\ pc = "x_votes"
  /\ post_data' = WithKey(post_data, "votes", VoteCount(item))
  /\ pc' = "x_comments"
  /\ UNCHANGED <<call, windows, current, ret, fault>>

\* lines 315-317: a strategy raises something other than
\* NoSuchElementException (a stale element, a lost session)
ReadVotesFails ==
  /\ pc = "x_votes"
  /\ post_data' = WithKey(post_data, "votes", votes_preview)
  /\ fault' = pc
  /\ pc' = "x_comments"
  /\ UNCHANGED <<call, windows, current, ret>>

\* lines 322-329: the page is scrolled and the comments are extracted
ExtractComments ==
  /\ pc = "x_comments"
  /\ post_data' = WithKey(post_data, "comments", extract_comments(tree))
  /\ pc' = "x_close"
  /\ UNCHANGED <<call, windows, current, ret, fault>>

\* lines 331-335: the tab is closed, the first handle is current again and
\* the record is returned
CloseTab ==
  /\ pc = "x_close"
  /\ windows' = Closed(windows, current)
  /\ current' = Closed(windows, current)[1]
  /\ ret' = "record"
  /\ pc' = "x_returned"
  /\ UNCHANGED <<call, post_data, fault>>

\* the steps of the try block that can raise into line 337
Raising == {"x_open", "x_switch", "x_get", "x_title", "x_body", "x_comments"}

\* a step raises (the script, the switch, the page load, a read other than
\* NoSuchElementException, a scroll): control passes to line 337
StepFails ==
  /\ pc \in Raising
  /\ fault' = pc
  /\ pc' = "x_except"
  /\ UNCHANGED <<call, windows, current, post_data, ret>>

\* lines 337-346: with more than one handle the current window is closed and
\* the first handle made current; a close or a switch that raises is
\* swallowed; None is returned
ExceptCleanup ==
  /\ pc = "x_except"
  /\ IF Len(windows) > 1
       THEN \E how \in {"ok", "close_raises", "switch_raises"} :
              /\ windows' = IF how = "close_raises" THEN windows
                            ELSE Closed(windows, current)
              /\ current' = CASE how = "ok" -> Closed(windows, current)[1]
                              [] how = "close_raises" -> current
                              [] how = "switch_raises" -> "closed"
       ELSE UNCHANGED <<windows, current>>
  /\ ret' = "none"
  /\ pc' = "x_returned"
  /\ UNCHANGED <<call, post_data, fault>>

\* fetch_posts inside its call of extract_post_data on the first of its links
Extracting ==
  /\ files = <<>> /\ id_tracker = NoFile /\ hash_tracker = {}
  /\ listing = PlainListing /\ page = 1 /\ noise = 0
  /\ run = 1 /\ count = 1
  /\ next_id = 1 /\ collected_hashes = {} /\ hashes0 = {}
  /\ visible = 1 /\ collected_links = <<1>> /\ seen_links = {1}
  /\ scroll_attempts = 0 /\ scrolls = 0 /\ clean = TRUE /\ dropped = FALSE
  /\ has_more_content = TRUE
  /\ post_links = <<1>> /\ i = 1 /\ post_id = 0
  /\ successful = 0 /\ failed = 0 /\ attempted = <<>>
  /\ fault = "none" /\ reported = FALSE
  /\ driver = "open" /\ ended = NoEnd
  /\ assigned = <<>> /\ cut = FALSE /\ writes = <<>> /\ prev = NoPrev
  /\ ret = "pending"
  /\ Unmerged

\* the call begins, the listing page open in the only window: any item page,
\* with or without a score from discovery, its comment tree missing or
\* holding one comment
InitExtract ==
  /\ Extracting
  /\ NoDescent
  /\ pc = "x_open"
  /\ windows = <<"listing">>
  /\ current = "listing"
  /\ post_data = NoData
  /\ item \in Items
  /\ votes_preview \in {Null, "p0"}
  /\ tree \in {NoTree, [present |-> "ok", depth |-> <<1>>, read |-> <<"ok">>]}

NextExtract ==
  \/ OpenTab
  \/ SwitchTab
  \/ LoadPage
  \/ ReadTitle
  \/ ReadBody
  \/ ReadVotes
  \/ ReadVotesFails
  \/ ExtractComments
  \/ CloseTab
  \/ StepFails
  \/ ExceptCleanup

SpecExtract == InitExtract /\ [][NextExtract]_vars

\* the call has read the fields of a page that holds none of them and is
\* about to extract its comments: the comment tree is missing, unreadable,
\* or any tree of at most MaxNodes comments
InitComments ==
  /\ Extracting
  /\ NoDescent
  /\ pc = "x_comments"
  /\ windows = <<"listing", "aux">>
  /\ current = "aux"
  /\ post_data = [url |-> 1, hash |-> Hash(1), scraped_at |-> "now", title |-> Null,
                  description |-> Null, votes |-> Null]
  /\ item = NoItem
  /\ votes_preview = Null
  /\ \/ tree \in {NoTree, BadTree}
     \/ \E n \in 0..MaxNodes : tree \in Trees(n)

NextComments ==
  \/ ExtractComments
  \/ CloseTab

SpecComments == InitComments /\ [][NextComments]_vars

\* ------------------------------------------------------------ src/merge.py
\* the folder listing of line 103 without the filter of line 106
JsonFiles_NoFilter(dir) == Ascending(DOMAIN dir)

\* lines 103-106: the JSON files of a folder in sorted order, the tracker
\* files filtered out
JsonFiles(dir) == SelectSeq(Ascending(DOMAIN dir), LAMBDA f : f \notin TrackerFiles)

\* _scan_category_folder (lines 110-119) over the files ids of folder dir,
\* and _process_json_file (lines 63-89): a file that parses to a JSON object
\* (an item, or a tracker were it listed) gives a record with the next
\* auto_id, a malformed one gives nothing and leaves auto_id alone
RECURSIVE ScanCategoryFolder(_, _, _, _)
ScanCategoryFolder(dir, ids, category, auto_id) ==
  IF ids = <<>> THEN <<>>
  ELSE IF dir[Head(ids)] # "malformed"
    THEN <<[auto_id |-> auto_id, category |-> category, url |-> Head(ids)]>>
           \o ScanCategoryFolder(dir, Tail(ids), category, auto_id + 1)
    ELSE ScanCategoryFolder(dir, Tail(ids), category, auto_id)

\* merge_data (lines 121-158) over two community folders in sorted order. Of
\* the first, its category subfolder when it has one, otherwise the folder
\* itself (lines 143-155); the second has no subfolder. auto_id runs on from
\* one folder to the next.
merge_data(d) ==
  LET first == IF d.has_sub
                 THEN ScanCategoryFolder(d.sub, JsonFiles(d.sub), "category", 1)
                 ELSE ScanCategoryFolder(d.direct, JsonFiles(d.direct), "community", 1)
  IN first \o ScanCategoryFolder(d.other, JsonFiles(d.other), "other", 1 + Len(first))

\* what a merge run leaves alone
fetch == <<files, id_tracker, hash_tracker, listing, page, noise, pc, run, count,
           next_id, collected_hashes, visible, collected_links, seen_links,
           scroll_attempts, post_links, i, post_data, post_id, successful, failed,
           scrolls, clean, dropped, has_more_content, hashes0, attempted, fault,
           assigned, cut, writes,
           prev, driver, reported, ended, windows, current, item, votes_preview, ret,
           tree>>

\* run (lines 186-211): the records are collected; with none the run ends
\* there (lines 197-199), otherwise write_csv writes the file anew
\* (lines 168-180)
MergeRun ==
  /\ output_file' = IF merge_data(data_dir) = <<>> THEN output_file
                    ELSE [exists |-> TRUE, rows |-> merge_data(data_dir)]
  /\ merged' = "done"
  /\ UNCHANGED <<fetch, data_dir, data, record, descent>>

\* write_csv fails (lines 182-184): the file cannot be opened, or it was
\* opened, which empties it, and the write is cut short
MergeRunWriteFails ==
  /\ merge_data(data_dir) # <<>>
  /\ output_file' \in {output_file, [exists |-> TRUE, rows |-> <<>>]}
  /\ merged' = "write_fault"
  /\ UNCHANGED <<fetch, data_dir, data, record, descent>>

\* folder dir with file id removed
Without(dir, id) == [k \in DOMAIN dir \ {id} |-> dir[k]]

\* folder dir with file id of kind
WithKind(dir, id, kind) == [k \in DOMAIN dir \cup {id} |-> IF k = id THEN kind ELSE dir[k]]

\* the folders one change of one file away from dir
Changed(dir) ==
  {Without(dir, id) : id \in DOMAIN dir}
    \cup {WithKind(dir, id, kind) : id \in 1..MaxFiles, kind \in Kinds}

\* between merge runs the data directory changes: a file is written, removed
\* or damaged, the category subfolder appears or goes
DataChanges ==
  /\ \/ \E dir \in Changed(data_dir.direct) : data_dir' = [data_dir EXCEPT !.direct = dir]
     \/ /\ data_dir.has_sub
        /\ \E dir \in Changed(data_dir.sub) : data_dir' = [data_dir EXCEPT !.sub = dir]
     \/ data_dir' = [data_dir EXCEPT !.has_sub = ~data_dir.has_sub, !.sub = <<>>]
  /\ data_dir' # data_dir
  /\ merged' = "no"
  /\ UNCHANGED <<fetch, output_file, data, record, descent>>

\* the fetcher at rest, any data directory, no output file
InitMerge ==
  /\ files = <<>> /\ id_tracker = NoFile /\ hash_tracker = {}
  /\ listing = PlainListing /\ page = 1 /\ noise = 0
  /\ pc = "idle" /\ run = 0
  /\ Fresh(0) /\ NoPage
  /\ driver = "none" /\ ended = NoEnd
  /\ assigned = <<>> /\ cut = FALSE /\ writes = <<>> /\ prev = NoPrev
  /\ data_dir \in [direct : Dirs, has_sub : {FALSE}, sub : {<<>>}, other : {<<>>}]
                    \cup [direct : Dirs, has_sub : {TRUE}, sub : Dirs, other : {<<>>}]
  /\ output_file = NoOutput
  /\ merged = "no"
  /\ Unprocessed
  /\ NoDescent

NextMerge ==
  \/ MergeRun
  \/ MergeRunWriteFails
  \/ DataChanges

SpecMerge == InitMerge /\ [][NextMerge]_vars

\* one merge run over any data directory the fetcher can have left
FetcherAtRest ==
  /\ files = <<>> /\ id_tracker = NoFile /\ hash_tracker = {}
  /\ listing = PlainListing /\ page = 1 /\ noise = 0
  /\ pc = "idle" /\ run = 0
  /\ Fresh(0) /\ NoPage
  /\ driver = "none" /\ ended = NoEnd
  /\ assigned = <<>> /\ cut = FALSE /\ writes = <<>> /\ prev = NoPrev

InitFlatten ==
  /\ FetcherAtRest
  /\ data_dir \in [direct : TrackedDirs, has_sub : {FALSE}, sub : {<<>>}, other : TrackedDirs]
                    \cup [direct : TrackedDirs, has_sub : {TRUE}, sub : TrackedDirs,
                          other : TrackedDirs]
  /\ output_file = NoOutput
  /\ merged = "no"
  /\ Unprocessed
  /\ NoDescent

MergeOnce == merged = "no" /\ MergeRun

MergeOnceWriteFails == merged = "no" /\ MergeRunWriteFails

NextFlatten ==
  \/ MergeOnce
  \/ MergeOnceWriteFails

SpecFlatten == InitFlatten /\ [][NextFlatten]_vars

\* dict.get (lines 74-78): None for a key that is not there
Get(d, key) == IF d[key] = Missing THEN JsonNull ELSE d[key]

\* _handle_null_value (lines 47-61)
HandleNullValue(value) ==
  IF value.type = "null" THEN ""
  ELSE IF value.type = "str"
    THEN IF Strip(value.text) = "" THEN "" ELSE Strip(value.text)
  ELSE IF value.type \in {"list", "dict"}
    THEN IF value.size = 0 THEN "" ELSE value.text
  ELSE value.text

\* _comments_to_json_string (lines 32-45) on what a comments key can hold: a
\* list, a mapping or null
CommentsToJsonString(comments) ==
  IF comments.type = "null" THEN "[]"
  ELSE IF comments.size = 0 THEN "[]"
  ELSE comments.json

\* _process_json_file (lines 67-82) on a file that holds a JSON object
ProcessJsonFile ==
  /\ ~record.made
  /\ record' = [made |-> TRUE,
                description |-> HandleNullValue(Get(data, "description")),
                votes |-> HandleNullValue(Get(data, "votes")),
                comments |-> CommentsToJsonString(Get(data, "comments"))]
  /\ UNCHANGED <<fetch, data_dir, output_file, merged, data, descent>>

\* any item file: every key missing or holding any value, the comments a
\* tree, a mapping or null
InitDefaulting ==
  /\ FetcherAtRest
  /\ data_dir = [direct |-> <<>>, has_sub |-> FALSE, sub |-> <<>>, other |-> <<>>]
  /\ output_file = NoOutput
  /\ merged = "no"
  /\ data \in [description : JsonValues \cup {Missing},
                votes : JsonValues \cup {Missing},
                comments : {JsonNull, Missing} \cup JsonLists \cup JsonDicts]
  /\ record = NoRecord
  /\ NoDescent

SpecDefaulting == InitDefaulting /\ [][ProcessJsonFile]_vars

\* ------------------------------------- _extract_single_comment, call by call
\* the children lists an element can have: at most two comments out of n
Kids(n) == UNION {[1..k -> 1..n] : k \in 0..2}

\* the structures the XPath queries of lines 357 and 403 can describe over n
\* comments. Nothing in the code keeps a comment from being found again
\* below itself.
Sources(n) == [0..n -> Kids(n)]

\* the call on top of the stack, and whether its loop has an element left
Top == stack[Len(stack)]
HasNext == stack # <<>> /\ Top.k <= Len(source[Top.node])

\* the stack once its top frame has returned: the loop of the caller goes on
\* to the next element (lines 360-363, 404-407)
Returned ==
  IF Len(stack) = 1 THEN <<>>
  ELSE [SubSeq(stack, 1, Len(stack) - 1) EXCEPT ![Len(stack) - 1].k = @ + 1]

\* lines 361 and 405: _extract_single_comment is called on the next element
CallSingleComment ==
  /\ HasNext
  /\ Len(stack) - 1 < RecursionLimit
  /\ stack' = Append(stack, [node |-> source[Top.node][Top.k], k |-> 1])
  /\ UNCHANGED <<fetch, data_dir, output_file, merged, data, record, source, overflow>>

\* the call finds no stack left. Raised inside the callee, the error is
\* caught at line 413, None comes back and the loop goes on; raised at the
\* call itself it is caught at line 408 and the loop is left.
CallOverflows ==
  /\ HasNext
  /\ Len(stack) - 1 = RecursionLimit
  /\ overflow' = TRUE
  /\ \/ stack' = [stack EXCEPT ![Len(stack)].k = @ + 1]
     \/ stack' = [stack EXCEPT ![Len(stack)].k = Len(source[Top.node]) + 1]
  /\ UNCHANGED <<fetch, data_dir, output_file, merged, data, record, source>>

\* lines 365 and 411: the loop is over, the call returns what it built
ReturnComment ==
  /\ stack # <<>>
  /\ ~HasNext
  /\ stack' = Returned
  /\ UNCHANGED <<fetch, data_dir, output_file, merged, data, record, source, overflow>>

\* extract_comments has found the comment tree element and begins its loop
\* over a structure of at most MaxComments comments
InitDescent ==
  /\ Extracting
  /\ pc = "x_comments"
  /\ windows = <<"listing", "aux">>
  /\ current = "aux"
  /\ post_data = [url |-> 1, hash |-> Hash(1), scraped_at |-> "now", title |-> Null,
                  description |-> Null, votes |-> Null]
  /\ item = NoItem
  /\ votes_preview = Null
  /\ tree = NoTree
  /\ \E n \in 1..MaxComments : source \in Sources(n)
  /\ stack = <<[node |-> 0, k |-> 1]>>
  /\ overflow = FALSE

NextDescent ==
  \/ CallSingleComment
  \/ CallOverflows
  \/ ReturnComment

SpecDescent == InitDescent /\ [][NextDescent]_vars

WriteBeforeCommit ==
  [][(pc = "save_write" /\ fault' = "item_write")
       => /\ next_id' = next_id
          /\ collected_hashes' = collected_hashes
          /\ id_tracker' = id_tracker
          /\ hash_tracker' = hash_tracker]_vars

\* an item file write has failed, after an earlier item of the run was saved
WriteBeforeCommitWitness ==
  /\ pc = "finally"
  /\ fault = "item_write"
  /\ successful >= 1

\* C3: when id_tracker.json holds k, an item file was written in full for
\* every id from 1 to k - 1
WriteThenCommit ==
  id_tracker # NoFile =>
    \A k \in 1..(id_tracker - 1) : k \in DOMAIN files /\ files[k] # TornFile

\* a run was interrupted after the item file of the next id was written and
\* before the counter was, a counter being on disk from an earlier item
WriteThenCommitWitness ==
  /\ pc = "finally"
  /\ fault = "interrupt"
  /\ id_tracker # NoFile
  /\ id_tracker = post_id
  /\ post_id \in DOMAIN files

\* C4: no two item files of the scope hold the same source link
ExactlyOncePersisted ==
  \A a, b \in DOMAIN files :
    (a # b /\ files[a] # TornFile) => files[a].url # files[b].url

\* C5: no item file is written a second time
ItemImmutable == \A k \in DOMAIN writes : writes[k] <= 1

\* a sequence of at most count pairwise distinct links, none fingerprinted in
\* the set loaded for the scope
FreshLinks(s) ==
  /\ Len(s) <= count
  /\ \A a, b \in 1..Len(s) : a # b => s[a] # s[b]
  /\ \A k \in 1..Len(s) : Hash(s[k]) \notin hashes0

\* C6: collect_post_links returns at most count links, pairwise distinct,
\* none with a fingerprint in the set loaded for the scope
NoRediscovery ==
  /\ pc = "discovered" => FreshLinks(Take(collected_links, count))
  /\ FreshLinks(post_links)

\* links came back from a page that also showed a fingerprinted link and
\* showed one of the returned links twice
NoRediscoveryWitness ==
  /\ pc = "extract"
  /\ post_links # <<>>
  /\ \E k \in 1..visible : Hash(listing[k]) \in hashes0
  /\ \E a, b \in 1..visible : a < b /\ listing[a] = listing[b] /\ listing[a] = post_links[1]

\* C7: a discovery against the listing the last discovery saw, that one
\* having read the page cleanly with no more links on it than its target
\* count and every link it found being recorded in hash_tracker.json,
\* yields no link
IdempotentDedup ==
  (/\ pc = "discovered"
   /\ prev.valid
   /\ prev.listing = listing
   /\ \A l \in prev.found : Hash(l) \in hash_tracker)
    => collected_links = <<>>

\* the second discovery has ended, the first having found links, all saved
IdempotentDedupWitness ==
  /\ pc = "discovered"
  /\ prev.valid
  /\ prev.listing = listing
  /\ prev.found # {}
  /\ \A l \in prev.found : Hash(l) \in hash_tracker

\* the links of cs not fingerprinted in hashes, each once, in encounter order
RECURSIVE Unseen(_, _)
Unseen(cs, hashes) ==
  IF cs = <<>> THEN <<>>
  ELSE LET front == Unseen(SubSeq(cs, 1, Len(cs) - 1), hashes)
           last == cs[Len(cs)]
       IN IF Hash(last) \in hashes \/ last \in Range(front)
            THEN front ELSE Append(front, last)

\* the not-yet-seen links of the containers materialized before any scroll
InitiallyUnseen == Unseen(SubSeq(listing, 1, InitialVisible), hashes0)

\* C8: when the containers materialized before any scroll hold at least
\* count links that are not fingerprinted, and no container read is dropped,
\* discovery returns the first count of them in encounter order and never
\* scrolls
FirstWithoutScroll ==
  (/\ pc = "discovered"
   /\ ~dropped
   /\ Len(InitiallyUnseen) >= count)
    => /\ collected_links = Take(InitiallyUnseen, count)
       /\ scrolls = 0

\* three containers before any scroll, a fingerprinted one above an unseen
\* one, two links wanted
FirstWithoutScrollWitness ==
  /\ pc = "discovered"
  /\ ~dropped
  /\ count >= 2
  /\ Len(InitiallyUnseen) >= count
  /\ \E k \in 1..(InitialVisible - 1) : Hash(listing[k]) \in hashes0

\* C9: an extraction that returns no record counts one failure, persists
\* nothing and leaves the loop at the next link; at the summary every
\* discovered link has been handed to extract_post_data once, in order, and
\* succeeded + failed is their number
ExtractionIsolated ==
  /\ [](pc = "summary" =>
          /\ attempted = post_links
          /\ successful + failed = Len(post_links))
  /\ [][(pc = "extract" /\ Len(attempted') > Len(attempted) /\ pc' # "save_begin")
          => /\ failed' = failed + 1
             /\ successful' = successful
             /\ files' = files /\ id_tracker' = id_tracker /\ hash_tracker' = hash_tracker
             /\ i' = i + 1
             /\ pc' = IF i < Len(post_links) THEN "extract" ELSE "summary"]_vars

\* the summary of a run whose first link failed to extract and whose last
\* link was persisted
ExtractionIsolatedWitness ==
  /\ pc = "summary"
  /\ Len(post_links) >= 2
  /\ failed >= 1
  /\ Hash(post_links[1]) \notin hash_tracker
  /\ Hash(post_links[Len(post_links)]) \in hash_tracker

\* C10: a run that met a failing item file write still hands every
\* discovered link to extract_post_data before it ends
PersistFaultIsolated ==
  (pc = "finally" /\ fault = "item_write") => attempted = post_links

ExitCode ==
  (pc = "done" /\ ended # NoEnd)
    => (ended.code # 0 <=> ended.fault \in {"usage", "setup"})

\* C17: a run whose discovery returned links, and which completes normally
\* or is interrupted, has printed the succeeded and failed counts when it
\* reaches its end
CountsReported ==
  (pc = "finally" /\ post_links # <<>> /\ fault \in {"none", "interrupt"}) => reported

\* C12: when extract_post_data has returned, with a record or after a fault
\* at any step, the listing window is the only window open and the current
\* one
ContextRestored ==
  pc = "x_returned" => (windows = <<"listing">> /\ current = "listing")

\* no score strategy finds its element on the page
NoScoreElement == ~item.seeker.found /\ ~item.post.found

\* C13: on a page where no score strategy finds its element, the score of
\* the record is the one handed over by discovery, null when there is none
ScoreFallback ==
  (pc = "x_returned" /\ ret = "record" /\ NoScoreElement)
    => post_data.votes = votes_preview

\* the comments of a forest of records in document order, each with its depth
RECURSIVE Preorder(_, _)
Preorder(f, d) ==
  IF f = <<>> THEN <<>>
  ELSE <<<<Head(f).text, d>>>> \o Preorder(Head(f).replies, d + 1) \o Preorder(Tail(f), d)

\* the comments of the source tree in document order, each with its depth
SourceOrder == [k \in 1..Len(tree.depth) |-> <<k, tree.depth[k]>>]

\* the records of a forest that have an empty reply list
RECURSIVE Leaves(_)
Leaves(f) ==
  IF f = <<>> THEN {}
  ELSE (IF Head(f).replies = <<>> THEN {Head(f).text} ELSE {})
         \cup Leaves(Head(f).replies) \cup Leaves(Tail(f))

\* the comments of the source tree that have no reply
SourceLeaves ==
  {k \in 1..Len(tree.depth) :
     k = Len(tree.depth) \/ tree.depth[k + 1] <= tree.depth[k]}

\* extract_comments has returned
CommentsDone == pc \in {"x_close", "x_returned"} /\ "comments" \in DOMAIN post_data

\* C14: from a tree read without a fault, extract_comments returns one
\* record per comment, nested and ordered as in the source at every depth,
\* and the records with an empty reply list are those of the comments
\* without replies
TreeFidelity ==
  (/\ CommentsDone
   /\ tree.present = "ok"
   /\ \A k \in 1..Len(tree.read) : tree.read[k] = "ok")
    => /\ Preorder(post_data.comments, 1) = SourceOrder
       /\ Leaves(post_data.comments) = SourceLeaves

\* a root with two replies, one reply to each, all read without a fault
TreeFidelityWitness ==
  /\ CommentsDone
  /\ tree.present = "ok"
  /\ tree.depth = <<1, 2, 3, 2, 3>>
  /\ \A k \in 1..Len(tree.read) : tree.read[k] = "ok"

\* the comment that comment k replies to, 0 for a top-level comment
Parent(k) == Max({j \in 1..(k - 1) : tree.depth[j] = tree.depth[k] - 1})

\* comment k is read, and so are the comments it hangs under, each listing
\* its replies
RECURSIVE Survives(_)
Survives(k) ==
  /\ tree.read[k] # "throws"
  /\ Parent(k) # 0 => (tree.read[Parent(k)] = "ok" /\ Survives(Parent(k)))

\* C15: extract_comments returns a list: the empty one when the tree is
\* missing or unreadable, otherwise the source tree without the comments
\* whose extraction throws and what hangs under them, every other comment in
\* its place and order
PartialFailure ==
  CommentsDone =>
    Preorder(post_data.comments, 1) = SelectSeq(SourceOrder, LAMBDA n : Survives(n[1]))

\* three sibling comments were met, the middle one throwing, the ones before
\* and after it extracted
PartialFailureWitness ==
  /\ CommentsDone
  /\ tree.present = "ok"
  /\ \E k \in 0..Len(tree.depth) :
       LET cs == Children(tree, k)
       IN /\ Len(cs) >= 3
          /\ tree.read[cs[1]] = "ok" /\ Survives(cs[1])
          /\ tree.read[cs[2]] = "throws"
          /\ tree.read[cs[3]] = "ok"
          /\ Len(post_data.comments) >= 1

\* C18: a call that met no fault returns a record: the link, its
\* fingerprint, the timestamp and the comment list are there, and the title,
\* the body and the score are null when the page does not hold them
GracefulAbsence ==
  (pc = "x_returned" /\ fault = "none")
    => /\ ret = "record"
       /\ DOMAIN post_data = {"url", "hash", "scraped_at", "title", "description",
                              "votes", "comments"}
       /\ post_data.url = post_links[i]
       /\ post_data.hash = Hash(post_links[i])
       /\ post_data.scraped_at = "now"
       /\ Len(post_data.comments) = Len(tree.depth)
       /\ item.title = Absent => post_data.title = Null
       /\ item.body = Absent => post_data.description = Null
       /\ NoScoreElement => post_data.votes = Null

\* a record came back from a page with a title, a comment, no body and no
\* score element
GracefulAbsenceWitness ==
  /\ pc = "x_returned"
  /\ fault = "none"
  /\ ret = "record"
  /\ item.title # Absent
  /\ item.body = Absent
  /\ NoScoreElement
  /\ Len(post_data.comments) = 1

\* what each strategy yields on the page, in the order they are tried
Yields ==
  <<IF item.seeker.found THEN ReadFaceplate(item.seeker) ELSE Null,
    IF item.post.found /\ item.post.face.found THEN ReadFaceplate(item.post.face) ELSE Null,
    IF item.post.found THEN item.post.score ELSE Null>>

NonEmpty(v) == v \notin {Null, ""}

\* C19: when some strategy yields a non-empty value, the score of the record
\* is the value of the earliest strategy that does
FirstNonEmptyWins ==
  (/\ pc = "x_returned"
   /\ ret = "record"
   /\ fault = "none"
   /\ \E k \in 1..3 : NonEmpty(Yields[k]))
    => LET first == CHOOSE k \in 1..3 :
                      NonEmpty(Yields[k]) /\ \A j \in 1..(k - 1) : ~NonEmpty(Yields[j])
       IN post_data.votes = Yields[first]

\* C20: after a merge run whose write did not fail, an output file that is
\* there holds exactly the rows derived from the item files present at that
\* run
RecomputedInFull ==
  (merged = "done" /\ output_file.exists) => output_file.rows = merge_data(data_dir)

\* C24: no cycle is abandoned over a container that cannot be read: every
\* cycle counted in scroll_attempts went through all its containers and
\* reached its scroll step
ReadFaultDropped == scroll_attempts = scrolls

\* a save_post of this run has returned and no other is under way
Quiescent == pc \in {"extract", "summary"} /\ successful >= 1

\* C26: after a save_post that returned, both tracker files hold what is in
\* memory, and the fingerprints are as many as next_id - 1 and as many as the
\* item files
TrackersConsistent ==
  Quiescent =>
    /\ id_tracker = next_id
    /\ hash_tracker = collected_hashes
    /\ Cardinality(hash_tracker) = next_id - 1
    /\ Cardinality(DOMAIN files) = next_id - 1

\* collect_post_links has returned its links to fetch_posts
Discovered == pc \in {"extract", "finally"}

\* C23: on a page that may misbehave for ever discovery returns; it never
\* goes through more than 50 cycles, it does not begin a cycle after a scroll
\* that left the height unchanged, and what it returns is the links found so
\* far, cut to the requested count, without a fault
BoundedDiscovery ==
  /\ [](scroll_attempts <= max_scroll_attempts /\ scrolls <= max_scroll_attempts)
  /\ [](pc \in {"scan", "scanned"} => has_more_content)
  /\ [](Discovered => post_links = Take(collected_links, count) /\ fault = "none")
  /\ <>Discovered

\* the cap was reached with fewer links than requested, and they came back
BoundedDiscoveryWitness ==
  /\ Discovered
  /\ scroll_attempts = max_scroll_attempts
  /\ Len(post_links) < count
  /\ post_links # <<>>

\* a merge run has written the output file
Flattened == merged = "done" /\ output_file.exists

\* the folder whose rows carry category c
FolderOf(d, c) ==
  IF c = "category" THEN d.sub ELSE IF c = "community" THEN d.direct ELSE d.other

\* the categories of the folders merge_data goes through (lines 143-155)
Scanned(d) == {IF d.has_sub THEN "category" ELSE "community", "other"}

\* the well-formed item files of the folders gone through
WellFormed(d) ==
  {<<c, f>> \in Scanned(d) \X (1..MaxFiles) :
     f \in DOMAIN FolderOf(d, c) /\ FolderOf(d, c)[f] = "item"}

\* C21: the rows of the output file are numbered 1..n in output order,
\* whatever the names of the item files, n being the number of well-formed
\* item files gone through; each row comes from a well-formed item file, so
\* a malformed file neither takes a number nor stops the scan, and a tracker
\* file gives no row
SequentialRows ==
  Flattened =>
    LET rows == output_file.rows
    IN /\ \A k \in 1..Len(rows) : rows[k].auto_id = k
       /\ \A k \in 1..Len(rows) :
            /\ rows[k].url \notin TrackerFiles
            /\ rows[k].url \in DOMAIN FolderOf(data_dir, rows[k].category)
            /\ FolderOf(data_dir, rows[k].category)[rows[k].url] = "item"
       /\ Len(rows) = Cardinality(WellFormed(data_dir))

\* a malformed file comes before a well-formed one in a folder that holds the
\* tracker files, a second folder follows, and every folder gave rows
SequentialRowsWitness ==
  /\ Flattened
  /\ ~data_dir.has_sub
  /\ DOMAIN data_dir.direct = (1..2) \cup TrackerFiles
  /\ data_dir.direct[1] = "malformed"
  /\ data_dir.direct[2] = "item"
  /\ IdTracker \in DOMAIN data_dir.other
  /\ \E k \in 1..Len(output_file.rows) :
       output_file.rows[k].category = "other" /\ output_file.rows[k].auto_id > 1

\* the item files the fetcher has persisted under any scope of the data
\* directory
Persisted(d) ==
  {<<c, f>> \in {"community", "category", "other"} \X (1..MaxFiles) :
     f \in DOMAIN FolderOf(d, c) /\ FolderOf(d, c)[f] = "item"}

\* C27: every item file persisted under any scope has exactly one row in the
\* output of a merge run, those directly in a community folder as well as
\* those in its subfolder
EveryScopeFlattened ==
  (merged = "done" /\ Persisted(data_dir) # {}) =>
    /\ output_file.exists
    /\ \A p \in Persisted(data_dir) :
         Cardinality({k \in 1..Len(output_file.rows) :
                        /\ output_file.rows[k].category = p[1]
                        /\ output_file.rows[k].url = p[2]}) = 1

\* null, a blank string, an empty list or an empty mapping
Blank(value) ==
  \/ value.type = "null"
  \/ value.type = "str" /\ value.text \in {"", " "}
  \/ value.type \in {"list", "dict"} /\ value.size = 0

\* C22: in the record made of an item a field that is missing, null, a
\* blank string or an empty list or mapping is the empty string, the
\* comments are "[]" when missing, null or empty and their JSON text
\* otherwise, and any other field is the text of its value
Defaulting ==
  record.made =>
    /\ \A key \in {"description", "votes"} :
         record[key] = IF Blank(Get(data, key)) THEN "" ELSE Get(data, key).text
    /\ record.comments =
         IF Blank(Get(data, "comments")) THEN "[]" ELSE Get(data, "comments").json

\* C25: whatever the structure, one in which a comment is found again below
\* itself included, the descent of _extract_single_comment is ended by a
\* ceiling of its own: no call runs the interpreter out of stack
DescentGuarded == ~overflow

====================================================================
